---- MODULE Spec2Model ----
(***************************************************************************)
(* Model of MaslowDue/system.cpp: the real-time exec-flag store, the       *)
(* system-command dispatcher system_execute_line with its state gates, the *)
(* startup-script runner, the forward kinematics loop and the travel-limit *)
(* check.                                                                  *)
(*                                                                         *)
(* The specifications share the variables:                                 *)
(*   SpecFlags       the eight exec-flag mutators run from the main loop   *)
(*                   as load / modify / store sequences, pre-empted by     *)
(*                   interrupt handlers that run the set-mutators;         *)
(*   Spec            the dispatcher, one call per input line, split only   *)
(*                   where the asynchronous reset path can act (the homing *)
(*                   cycle);                                               *)
(*   SpecStartup     system_execute_startup, one step per slot;            *)
(*   SpecKinematics  triangularForward, one step per iteration;            *)
(*   SpecLimits      system_check_travel_limits applied to targets.        *)
(***************************************************************************)
EXTENDS Integers, Sequences, FiniteSets, TLC

VARIABLES
  sys_rt_exec_state,              \* volatile uint8_t bitfield
  sys_rt_exec_alarm,              \* volatile uint8_t alarm code
  sys_rt_exec_motion_override,    \* volatile uint8_t bitfield
  sys_rt_exec_accessory_override, \* volatile uint8_t bitfield
  irq,        \* interrupt-enable status of the CPU (SREG I bit)
  m_pc,       \* position of the main-loop mutator call
  m_op,       \* which mutator the main loop is running
  m_arg,      \* its mask / code argument
  m_reg,      \* the register holding the loaded field
  m_sreg,     \* the saved status register (uint8_t sreg = SREG)
  m_irq0,     \* interrupt-enable status on entry of the call
  m_old,      \* the four fields on entry of the call
  isr_set,    \* bits set in sys_rt_exec_state by interrupts during the call
  isr_any,    \* an interrupt mutator ran during the call
  sys_state,  \* sys.state
  sys_abort,  \* sys.abort
  homing_enable, \* settings.flags & BITFLAG_HOMING_ENABLE
  single_axis,   \* build option HOMING_SINGLE_AXIS_COMMANDS
  door_pin,      \* the physical safety-door input
  startup_lines, \* persisted startup blocks, slot -> block
  global_setting,\* last global setting persisted, <<n, v>> or <<>>
  line,       \* the line buffer handed to system_execute_line
  cmd,        \* the line as it was received
  pc,         \* position of the dispatcher: idle, homing, ret
  status,     \* status code returned by system_execute_line
  calls,      \* what the current call has done so far, in order
  entry,      \* snapshot of the machine on entry of the current call
  su_pc,      \* position of system_execute_startup: off, loop, done
  su_n,       \* its loop counter n
  su_rd,      \* slot -> whether settings_read_startup_line succeeds
  su_gs,      \* slot -> status gc_execute_line returns for the block
  k_pc,       \* position of triangularForward: idle, loop, ret
  chainALength, \* its arguments
  chainBLength,
  xGuess,     \* its locals
  yGuess,
  guessCount,
  k_evals,    \* evaluations of triangularInverse in the current call
  k_conv,     \* the last iteration found both chain errors within the limit
  k_over,     \* the last iteration guessed a chain longer than chainLength
  k_msg,      \* the "Unable to find valid machine position" message was sent
  xLastPosition, \* _xLastPosition, passed as xPos
  yLastPosition, \* _yLastPosition, passed as yPos
  x_steps,       \* *x_steps of system_convert_maslow_to_xy_steps
  y_steps,       \* *y_steps
  position,      \* position[X_AXIS], position[Y_AXIS] of the last conversion
  lim_pc,        \* position of system_check_travel_limits: idle, ret
  lim_settings,  \* settings.max_travel and settings.zTravelMin
  lim_target,    \* argument of system_check_travel_limits
  lim_result     \* what it returned

flagVars == <<sys_rt_exec_alarm, sys_rt_exec_motion_override,
              sys_rt_exec_accessory_override, irq, m_pc, m_op, m_arg, m_reg,
              m_sreg, m_irq0, m_old, isr_set, isr_any>>
dispVars == <<sys_state, sys_abort, homing_enable, single_axis, door_pin,
              startup_lines, global_setting, line, cmd, pc, status, calls,
              entry>>
startupVars == <<su_pc, su_n, su_rd, su_gs>>
kinVars == <<k_pc, chainALength, chainBLength, xGuess, yGuess, guessCount,
             k_evals, k_conv, k_over, k_msg, xLastPosition, yLastPosition,
             x_steps, y_steps, position>>
limitVars == <<lim_pc, lim_settings, lim_target, lim_result>>
auxVars == <<startupVars, kinVars, limitVars>>
vars == <<sys_rt_exec_state, flagVars, dispVars, auxVars>>

----------------------------------------------------------------------------
(* Build configuration and bit arithmetic on uint8_t.                      *)

MASLOWCNC == TRUE

RECURSIVE BitAnd(_, _)
BitAnd(a, b) ==
  IF a = 0 \/ b = 0 THEN 0
  ELSE (a % 2) * (b % 2) + 2 * BitAnd(a \div 2, b \div 2)

RECURSIVE BitOr(_, _)
BitOr(a, b) ==
  IF a = 0 THEN b
  ELSE IF b = 0 THEN a
  ELSE (IF (a % 2) + (b % 2) > 0 THEN 1 ELSE 0) + 2 * BitOr(a \div 2, b \div 2)

BitNot(a) == 255 - a

EXEC_CYCLE_START == 2
EXEC_FEED_HOLD == 8
EXEC_SLEEP == 128
EXEC_RESET == 16

\* masks and codes the callers pass
StateMasks == {EXEC_CYCLE_START, EXEC_FEED_HOLD,
               EXEC_CYCLE_START + EXEC_FEED_HOLD}
OverrideMasks == {1}
AlarmCodes == {1}

----------------------------------------------------------------------------
(* The exec-flag mutators: the value each stores, from the value it loaded *)

system_set_exec_state_flag(old, mask) == BitOr(old, mask)
\* variant: the clear zeroes the whole field
system_clear_exec_state_flag_WholeField(old, mask) == 0
system_clear_exec_state_flag(old, mask) == BitAnd(old, BitNot(mask))
system_set_exec_alarm(old, code) == code
system_clear_exec_alarm(old) == 0
system_set_exec_motion_override_flag(old, mask) == BitOr(old, mask)
system_set_exec_accessory_override_flag(old, mask) == BitOr(old, mask)
system_clear_exec_motion_overrides(old) == 0
system_clear_exec_accessory_overrides(old) == 0

Mutators == {"set_state", "clear_state", "set_alarm", "clear_alarm",
             "set_motion_override", "set_accessory_override",
             "clear_motion_overrides", "clear_accessory_overrides"}
SetMutators == {"set_state", "set_alarm", "set_motion_override",
                "set_accessory_override"}

\* |= and &= load the field before they store; a plain assignment does not
ReadModifyWrite(op) ==
  op \in {"set_state", "clear_state", "set_motion_override",
          "set_accessory_override"}

ArgsOf(op) ==
  CASE op \in {"set_state", "clear_state"} -> StateMasks
    [] op = "set_alarm" -> AlarmCodes
    [] op \in {"set_motion_override", "set_accessory_override"} -> OverrideMasks
    [] OTHER -> {0}

FieldOf(op) ==
  CASE op \in {"set_state", "clear_state"} -> "state"
    [] op \in {"set_alarm", "clear_alarm"} -> "alarm"
    [] op \in {"set_motion_override", "clear_motion_overrides"} -> "motion"
    [] OTHER -> "accessory"

Fields ==
  [state |-> sys_rt_exec_state, alarm |-> sys_rt_exec_alarm,
   motion |-> sys_rt_exec_motion_override,
   accessory |-> sys_rt_exec_accessory_override]

NoFields == [state |-> 0, alarm |-> 0, motion |-> 0, accessory |-> 0]

NewValue(op, old, arg) ==
  CASE op = "set_state" -> system_set_exec_state_flag(old, arg)
    [] op = "clear_state" -> system_clear_exec_state_flag(old, arg)
    [] op = "set_alarm" -> system_set_exec_alarm(old, arg)
    [] op = "clear_alarm" -> system_clear_exec_alarm(old)
    [] op = "set_motion_override" ->
         system_set_exec_motion_override_flag(old, arg)
    [] op = "set_accessory_override" ->
         system_set_exec_accessory_override_flag(old, arg)
    [] op = "clear_motion_overrides" -> system_clear_exec_motion_overrides(old)
    [] OTHER -> system_clear_exec_accessory_overrides(old)

StoreField(f, v) ==
  /\ sys_rt_exec_state' = IF f = "state" THEN v ELSE sys_rt_exec_state
  /\ sys_rt_exec_alarm' = IF f = "alarm" THEN v ELSE sys_rt_exec_alarm
  /\ sys_rt_exec_motion_override' =
       IF f = "motion" THEN v ELSE sys_rt_exec_motion_override
  /\ sys_rt_exec_accessory_override' =
       IF f = "accessory" THEN v ELSE sys_rt_exec_accessory_override

\* uint8_t sreg = SREG; cli();  -- compiled only #ifndef MASLOWCNC
MutatorEnter(op, arg) ==
  /\ m_pc = "idle"
  /\ m_op' = op
  /\ m_arg' = arg
  /\ m_irq0' = irq
  /\ m_old' = Fields
  /\ m_sreg' = IF MASLOWCNC THEN m_sreg ELSE irq
  /\ irq' = IF MASLOWCNC THEN irq ELSE FALSE
  /\ m_pc' = IF ReadModifyWrite(op) THEN "load" ELSE "store"
  /\ isr_set' = 0
  /\ isr_any' = FALSE
  /\ UNCHANGED <<auxVars, sys_rt_exec_state, sys_rt_exec_alarm,
                 sys_rt_exec_motion_override, sys_rt_exec_accessory_override,
                 m_reg, dispVars>>

\* the load of  field |= mask  /  field &= ~mask
MutatorLoad ==
  /\ m_pc = "load"
  /\ m_reg' = Fields[FieldOf(m_op)]
  /\ m_pc' = "store"
  /\ UNCHANGED <<auxVars, sys_rt_exec_state, sys_rt_exec_alarm,
                 sys_rt_exec_motion_override, sys_rt_exec_accessory_override,
                 irq, m_op, m_arg, m_sreg, m_irq0, m_old, isr_set, isr_any,
                 dispVars>>

\* the store of the new value
MutatorStore ==
  /\ m_pc = "store"
  /\ StoreField(FieldOf(m_op), NewValue(m_op, m_reg, m_arg))
  /\ m_pc' = "exit"
  /\ UNCHANGED <<auxVars, irq, m_op, m_arg, m_reg, m_sreg, m_irq0, m_old, isr_set,
                 isr_any, dispVars>>

\* SREG = sreg;  -- compiled only #ifndef MASLOWCNC
MutatorExit ==
  /\ m_pc = "exit"
  /\ irq' = IF MASLOWCNC THEN irq ELSE m_sreg
  /\ m_pc' = "done"
  /\ UNCHANGED <<auxVars, sys_rt_exec_state, sys_rt_exec_alarm,
                 sys_rt_exec_motion_override, sys_rt_exec_accessory_override,
                 m_op, m_arg, m_reg, m_sreg, m_irq0, m_old, isr_set, isr_any,
                 dispVars>>

\* the caller goes on
MutatorReturn ==
  /\ m_pc = "done"
  /\ m_pc' = "idle"
  /\ m_op' = "set_state"
  /\ m_arg' = 0
  /\ m_reg' = 0
  /\ m_sreg' = TRUE
  /\ m_irq0' = TRUE
  /\ m_old' = NoFields
  /\ isr_set' = 0
  /\ isr_any' = FALSE
  /\ UNCHANGED <<auxVars, sys_rt_exec_state, sys_rt_exec_alarm,
                 sys_rt_exec_motion_override, sys_rt_exec_accessory_override,
                 irq, dispVars>>

\* An interrupt handler pre-empts the main loop wherever interrupts are
\* enabled and runs one of the set-mutators to completion.
Interrupt(op, arg) ==
  /\ irq
  /\ m_pc \in {"load", "store", "exit"}
  /\ op \in SetMutators
  /\ StoreField(FieldOf(op), NewValue(op, Fields[FieldOf(op)], arg))
  /\ isr_set' = IF op = "set_state" THEN BitOr(isr_set, arg) ELSE isr_set
  /\ isr_any' = TRUE
  /\ UNCHANGED <<auxVars, irq, m_pc, m_op, m_arg, m_reg, m_sreg, m_irq0, m_old,
                 dispVars>>

\* the caller's context: interrupts enabled, or inside a critical section
SetInterruptEnable ==
  /\ m_pc = "idle"
  /\ irq' = ~irq
  /\ UNCHANGED <<auxVars, sys_rt_exec_state, sys_rt_exec_alarm,
                 sys_rt_exec_motion_override, sys_rt_exec_accessory_override,
                 m_pc, m_op, m_arg, m_reg, m_sreg, m_irq0, m_old, isr_set,
                 isr_any, dispVars>>

----------------------------------------------------------------------------
(* The machine state, the status codes and the input lines.                *)

STATE_IDLE == "Idle"
STATE_ALARM == "Alarm"
STATE_CHECK_MODE == "CheckMode"
STATE_HOMING == "Homing"
STATE_CYCLE == "Cycle"
STATE_HOLD == "Hold"
STATE_JOG == "Jog"
STATE_SAFETY_DOOR == "SafetyDoor"
STATE_SLEEP == "Sleep"
States == {STATE_IDLE, STATE_ALARM, STATE_CHECK_MODE, STATE_HOMING,
           STATE_CYCLE, STATE_HOLD, STATE_JOG, STATE_SAFETY_DOOR, STATE_SLEEP}

STATUS_OK == "Ok"
STATUS_BAD_NUMBER_FORMAT == "BadNumberFormat"
STATUS_INVALID_STATEMENT == "InvalidStatement"
STATUS_SETTING_DISABLED == "SettingDisabled"
STATUS_SETTING_READ_FAIL == "SettingReadFail"
STATUS_IDLE_ERROR == "IdleError"
STATUS_CHECK_DOOR == "CheckDoor"
STATUS_LINE_LENGTH_EXCEEDED == "LineLengthExceeded"
\* a status only the G-code parser produces
STATUS_GCODE_UNSUPPORTED_COMMAND == "GcodeUnsupportedCommand"
NoStatus == "none"

\* build options of config.h
HOMING_SINGLE_AXIS_COMMANDS == single_axis
ENABLE_BUILD_INFO_WRITE_COMMAND == TRUE
ENABLE_RESTORE_EEPROM_DEFAULT_SETTINGS == TRUE
ENABLE_RESTORE_EEPROM_CLEAR_PARAMETERS == TRUE
ENABLE_RESTORE_EEPROM_WIPE_ALL == TRUE
N_STARTUP_LINE == 2
\* scaled down so that the input lines reach it
EEPROM_LINE_SIZE == 8

\* A line is the sequence of its characters; the terminating NUL is the
\* character read at index Len(line).
NUL == ""
Char(l, i) == IF i < Len(l) THEN l[i + 1] ELSE NUL

\* line[i - from] = line[i] up to and including the NUL
ShiftLeft(l, from) == IF from >= Len(l) THEN <<>> ELSE SubSeq(l, from + 1, Len(l))

Lines ==
  { <<"$">>,
    <<"$", "J">>, <<"$", "J", "=", "G">>, <<"$", "J", "X">>,
    <<"$", "$">>, <<"$", "$", "X">>, <<"$", "G">>, <<"$", "C">>,
    <<"$", "X">>, <<"$", "X", "1">>,
    <<"$", "|">>, <<"$", "#">>, <<"$", "#", "1">>,
    <<"$", "H">>, <<"$", "H", "X">>, <<"$", "H", "Q">>,
    <<"$", "H", "X", "X">>,
    <<"$", "S">>,
    <<"$", "S", "L", "P">>, <<"$", "S", "L">>, <<"$", "S", "L", "P", "1">>,
    <<"$", "I">>, <<"$", "I", "=", "A">>, <<"$", "I", "A">>,
    <<"$", "R">>,
    <<"$", "R", "S", "T", "=", "$">>, <<"$", "R", "S", "T", "=", "#">>,
    <<"$", "R", "S", "T", "=", "*">>, <<"$", "R", "S", "T", "=", "Q">>,
    <<"$", "R", "S", "T", "=">>, <<"$", "R", "S", "T", "=", "$", "$">>,
    <<"$", "N">>, <<"$", "N", "0", "=", "G">>, <<"$", "N", "1", "=">>,
    <<"$", "N", "1", "=", "G">>,
    <<"$", "N", "=", "G">>, <<"$", "N", "0", "G">>,
    <<"$", "N", "0", "=", "G", "0", "X", "1">>,
    <<"$", "N", "0", "=", "G", "0", "X", "1", "Y", "2", "Z", "3", "F">>,
    <<"$", "N", "2", "=", "G">>,
    <<"$", "1", "2", "0", "=", "2", "5", "0">>,
    <<"$", "2", "5", "5", "=", "1">>, <<"$", "2", "5", "6", "=", "1">>,
    <<"$", "2", "5", "5", ".", "5", "=", "1">>,
    <<"$", "1", "2", "0", ".", "9", "=", "2", "5", "0">>,
    <<"$", "-", "1", "=", "1">>, <<"$", "1", "=">>, <<"$", "1", "=", "2", "X">>,
    <<"$", "1", "2">>, <<"$", "Q">> }

----------------------------------------------------------------------------
(* read_float of nuts_bolts: optional sign, digits with at most one        *)
(* decimal point; fails when there is no digit.                            *)

DigitChars == {"0", "1", "2", "3", "4", "5", "6", "7", "8", "9"}
DigitVal(ch) ==
  CASE ch = "0" -> 0 [] ch = "1" -> 1 [] ch = "2" -> 2 [] ch = "3" -> 3
    [] ch = "4" -> 4 [] ch = "5" -> 5 [] ch = "6" -> 6 [] ch = "7" -> 7
    [] ch = "8" -> 8 [] OTHER -> 9

RECURSIVE DigitsEnd(_, _)
DigitsEnd(l, i) == IF Char(l, i) \in DigitChars THEN DigitsEnd(l, i + 1) ELSE i

RECURSIVE DigitsValue(_, _, _, _)
DigitsValue(l, i, e, acc) ==
  IF i >= e THEN acc ELSE DigitsValue(l, i + 1, e, acc * 10 + DigitVal(Char(l, i)))

\* value: sign, integer part, fraction digits read as an integer (0 = none)
read_float(l, i) ==
  LET s0 == IF Char(l, i) \in {"-", "+"} THEN i + 1 ELSE i
      e1 == DigitsEnd(l, s0)
      dot == Char(l, e1) = "."
      e2 == IF dot THEN DigitsEnd(l, e1 + 1) ELSE e1
      ndigit == (e1 - s0) + (IF dot THEN e2 - (e1 + 1) ELSE 0)
  IN  [ok |-> ndigit > 0,
       neg |-> Char(l, i) = "-",
       ip |-> DigitsValue(l, s0, e1, 0),
       fr |-> IF dot THEN DigitsValue(l, e1 + 1, e2, 0) ELSE 0,
       next |-> e2]

\* parameter > 255
GreaterThan255(v) == ~v.neg /\ (v.ip > 255 \/ (v.ip = 255 /\ v.fr > 0))

\* trunc(parameter) as an integer
Trunc(v) == IF v.neg THEN 0 - v.ip ELSE v.ip

\* (uint8_t)parameter: the integer part when it is representable; the
\* conversion of a value of -1 or below is undefined, the builds either
\* saturate to 0 or wrap modulo 256.
CastUint8(v, ub) ==
  IF v.neg /\ v.ip >= 1
  THEN (IF ub = "zero" THEN 0 ELSE (256 - (v.ip % 256)) % 256)
  ELSE v.ip % 256

----------------------------------------------------------------------------
(* The dispatcher works on a record c of the machine: state, abort, line,  *)
(* startup, setting, exec, calls, status, pc.  Every call of a             *)
(* collaborator and every assignment to sys.state is appended to c.calls   *)
(* together with sys.state at that moment.                                 *)

Event(name, arg, n, code, st) ==
  [ev |-> name, arg |-> arg, n |-> n, code |-> code, st |-> st]

Do(c, name, arg, n, code) ==
  [c EXCEPT !.calls = Append(@, Event(name, arg, n, code, c.state))]

\* sys.state = s;
SetState(c, s) ==
  [Do(c, "sys.state", <<>>, 0, s) EXCEPT !.state = s]

\* return(s);
Return(c, s) == [c EXCEPT !.status = s, !.pc = "ret"]

\* variant: the pin state is returned in every build
system_check_safety_door_ajar_Pin(pin) == pin

\* Returns if safety door is ajar(T) or closed(F)
system_check_safety_door_ajar(pin) == IF MASLOWCNC THEN FALSE ELSE pin

\* variant: a slot that cannot be read is executed all the same
StartupSlot_ExecOnFail(c, n, rd, gs) ==
  LET c1 == Do(c, "settings_read_startup_line", <<>>, n, NoStatus)
      c2 == [c1 EXCEPT !.line = c.startup[n]]
  IN  IF Char(c2.line, 0) # NUL
      THEN Do(Do(c2, "gc_execute_line", c2.line, n, gs[n]),
              "report_execute_startup_message", c2.line, n, gs[n])
      ELSE c2

\* The body of the loop of system_execute_startup for slot n.  rd[n] tells
\* whether settings_read_startup_line succeeds for slot n and gs[n] is the
\* status gc_execute_line returns for its block.
StartupSlot(c, n, rd, gs) ==
  LET c1 == Do(c, "settings_read_startup_line", <<>>, n, NoStatus) IN
  IF ~rd[n]
  THEN Do([c1 EXCEPT !.line = <<>>], "report_execute_startup_message",
          <<>>, n, STATUS_SETTING_READ_FAIL)
  ELSE
    LET c2 == [c1 EXCEPT !.line = c.startup[n]] IN
    IF Char(c2.line, 0) # NUL
    THEN Do(Do(c2, "gc_execute_line", c2.line, n, gs[n]),
            "report_execute_startup_message", c2.line, n, gs[n])
    ELSE c2

\* Executes user startup script, if stored: slots n .. N_STARTUP_LINE-1.
RECURSIVE StartupFrom(_, _, _, _)
StartupFrom(c, n, rd, gs) ==
  IF n >= N_STARTUP_LINE THEN c
  ELSE StartupFrom(StartupSlot(c, n, rd, gs), n + 1, rd, gs)

system_execute_startup(c, rd, gs) == StartupFrom(c, 0, rd, gs)

\* mc_reset(): the reset is requested through the exec-state flag, once
mc_reset(c) ==
  LET c1 == Do(c, "mc_reset", <<>>, 0, NoStatus) IN
  IF BitAnd(c.exec, EXEC_RESET) = 0
  THEN [c1 EXCEPT !.exec = system_set_exec_state_flag(@, EXEC_RESET)]
  ELSE c1

\* case 0 : report_grbl_help(); break;
case_help(c) ==
  Return(Do(c, "report_grbl_help", <<>>, 0, NoStatus), STATUS_OK)

\* variant: the jog gate lets a feed hold through
case_J_HoldAllowed(c, orc) ==
  IF c.state # STATE_IDLE /\ c.state # STATE_JOG /\ c.state # STATE_HOLD
  THEN Return(c, STATUS_IDLE_ERROR)
  ELSE IF Char(c.line, 2) # "="
  THEN Return(c, STATUS_INVALID_STATEMENT)
  ELSE Return(Do(c, "gc_execute_line", c.line, 0, orc.gc), orc.gc)

\* case 'J' : jogging, only in IDLE or JOG
case_J(c, orc) ==
  IF c.state # STATE_IDLE /\ c.state # STATE_JOG
  THEN Return(c, STATUS_IDLE_ERROR)
  ELSE IF Char(c.line, 2) # "="
  THEN Return(c, STATUS_INVALID_STATEMENT)
  ELSE Return(Do(c, "gc_execute_line", c.line, 0, orc.gc), orc.gc)

\* variant: check mode is entered from the alarm state too
case_C_FromAlarm(c) ==
  IF c.state = STATE_CHECK_MODE
  THEN Return(Do(mc_reset(c), "report_feedback_message", <<>>, 0, NoStatus),
              STATUS_OK)
  ELSE IF c.state \notin {STATE_IDLE, STATE_ALARM}
  THEN Return(c, STATUS_IDLE_ERROR)
  ELSE Return(Do(SetState(c, STATE_CHECK_MODE),
                 "report_feedback_message", <<>>, 0, NoStatus), STATUS_OK)

\* variant: leaving check mode does not force a reset
case_C_NoReset(c) ==
  IF c.state = STATE_CHECK_MODE
  THEN Return(Do(c, "report_feedback_message", <<>>, 0, NoStatus), STATUS_OK)
  ELSE IF c.state # STATE_IDLE
  THEN Return(c, STATUS_IDLE_ERROR)
  ELSE Return(Do(SetState(c, STATE_CHECK_MODE),
                 "report_feedback_message", <<>>, 0, NoStatus), STATUS_OK)

\* case 'C' : Set check g-code mode [IDLE/CHECK]
case_C(c) ==
  IF c.state = STATE_CHECK_MODE
  THEN Return(Do(mc_reset(c), "report_feedback_message", <<>>, 0, NoStatus),
              STATUS_OK)
  ELSE IF c.state # STATE_IDLE
  THEN Return(c, STATUS_IDLE_ERROR)
  ELSE Return(Do(SetState(c, STATE_CHECK_MODE),
                 "report_feedback_message", <<>>, 0, NoStatus), STATUS_OK)

\* variant: the unlock tests if (sys.state) instead of the alarm state
case_X_AnyState(c) ==
  IF c.state # STATE_IDLE
  THEN IF system_check_safety_door_ajar(c.door)
       THEN Return(c, STATUS_CHECK_DOOR)
       ELSE Return(SetState(Do(c, "report_feedback_message", <<>>, 0,
                               NoStatus), STATE_IDLE), STATUS_OK)
  ELSE Return(c, STATUS_OK)

\* variant: the unlock reports but leaves the alarm state
case_X_KeepsAlarm(c) ==
  IF c.state = STATE_ALARM
  THEN IF system_check_safety_door_ajar(c.door)
       THEN Return(c, STATUS_CHECK_DOOR)
       ELSE Return(Do(c, "report_feedback_message", <<>>, 0, NoStatus),
                   STATUS_OK)
  ELSE Return(c, STATUS_OK)

\* case 'X' : Disable alarm lock [ALARM]
case_X(c) ==
  IF c.state = STATE_ALARM
  THEN IF system_check_safety_door_ajar(c.door)
       THEN Return(c, STATUS_CHECK_DOOR)
       ELSE Return(SetState(Do(c, "report_feedback_message", <<>>, 0,
                               NoStatus), STATE_IDLE), STATUS_OK)
  ELSE Return(c, STATUS_OK)

\* variant: the settings report is refused during a cycle only
case_query_CycleOnly(c) ==
  IF Char(c.line, 2) # NUL THEN Return(c, STATUS_INVALID_STATEMENT)
  ELSE CASE Char(c.line, 1) = "$" ->
              IF c.state = STATE_CYCLE
              THEN Return(c, STATUS_IDLE_ERROR)
              ELSE Return(Do(c, "report_grbl_settings", <<>>, 0, NoStatus),
                          STATUS_OK)
         [] Char(c.line, 1) = "G" ->
              Return(Do(c, "report_gcode_modes", <<>>, 0, NoStatus), STATUS_OK)
         [] Char(c.line, 1) = "C" -> case_C(c)
         [] OTHER -> case_X(c)

\* case '$': case 'G': case 'C': case 'X':
case_query(c) ==
  IF Char(c.line, 2) # NUL THEN Return(c, STATUS_INVALID_STATEMENT)
  ELSE CASE Char(c.line, 1) = "$" ->
              IF c.state \in {STATE_CYCLE, STATE_HOLD}
              THEN Return(c, STATUS_IDLE_ERROR)
              ELSE Return(Do(c, "report_grbl_settings", <<>>, 0, NoStatus),
                          STATUS_OK)
         [] Char(c.line, 1) = "G" ->
              Return(Do(c, "report_gcode_modes", <<>>, 0, NoStatus), STATUS_OK)
         [] Char(c.line, 1) = "C" -> case_C(c)
         [] OTHER -> case_X(c)

\* variant: the homing-enable flag is not tested
case_H_NoEnableCheck(c) ==
  IF system_check_safety_door_ajar(c.door)
  THEN Return(c, STATUS_CHECK_DOOR)
  ELSE
    LET c1 == SetState(c, STATE_HOMING)
        homing(cycle) ==
          [Do(c1, "mc_homing_cycle", <<cycle>>, 0, NoStatus)
             EXCEPT !.pc = "homing"]
    IN
    IF Char(c.line, 2) = NUL THEN homing("HOMING_CYCLE_ALL")
    ELSE IF HOMING_SINGLE_AXIS_COMMANDS /\ Char(c.line, 3) = NUL
    THEN CASE Char(c.line, 2) = "X" -> homing("HOMING_CYCLE_X")
           [] Char(c.line, 2) = "Y" -> homing("HOMING_CYCLE_Y")
           [] Char(c.line, 2) = "Z" -> homing("HOMING_CYCLE_Z")
           [] OTHER -> Return(c1, STATUS_INVALID_STATEMENT)
    ELSE Return(c1, STATUS_INVALID_STATEMENT)

\* case 'H' up to the call of mc_homing_cycle
case_H(c) ==
  IF ~c.homing_enable THEN Return(c, STATUS_SETTING_DISABLED)
  ELSE IF system_check_safety_door_ajar(c.door)
  THEN Return(c, STATUS_CHECK_DOOR)
  ELSE
    LET c1 == SetState(c, STATE_HOMING)
        homing(cycle) ==
          [Do(c1, "mc_homing_cycle", <<cycle>>, 0, NoStatus)
             EXCEPT !.pc = "homing"]
    IN
    IF Char(c.line, 2) = NUL THEN homing("HOMING_CYCLE_ALL")
    ELSE IF HOMING_SINGLE_AXIS_COMMANDS /\ Char(c.line, 3) = NUL
    THEN CASE Char(c.line, 2) = "X" -> homing("HOMING_CYCLE_X")
           [] Char(c.line, 2) = "Y" -> homing("HOMING_CYCLE_Y")
           [] Char(c.line, 2) = "Z" -> homing("HOMING_CYCLE_Z")
           [] OTHER -> Return(c1, STATUS_INVALID_STATEMENT)
    ELSE Return(c1, STATUS_INVALID_STATEMENT)

\* variant: the startup script is replayed after every homing form
case_H_done_AlwaysStartup(c, rd, gs) ==
  IF ~c.abort
  THEN Return(system_execute_startup(
                Do(SetState(c, STATE_IDLE), "st_go_idle", <<>>, 0, NoStatus),
                rd, gs), STATUS_OK)
  ELSE Return(c, STATUS_OK)

\* variant: sys.abort is not tested
case_H_done_IgnoreAbort(c, rd, gs) ==
  LET c1 == Do(SetState(c, STATE_IDLE), "st_go_idle", <<>>, 0, NoStatus)
  IN  IF Char(c.line, 2) = NUL
      THEN Return(system_execute_startup(c1, rd, gs), STATUS_OK)
      ELSE Return(c1, STATUS_OK)

\* case 'H' after mc_homing_cycle has returned
case_H_done(c, rd, gs) ==
  IF ~c.abort
  THEN LET c1 == Do(SetState(c, STATE_IDLE), "st_go_idle", <<>>, 0, NoStatus)
       IN  IF Char(c.line, 2) = NUL
           THEN Return(system_execute_startup(c1, rd, gs), STATUS_OK)
           ELSE Return(c1, STATUS_OK)
  ELSE Return(c, STATUS_OK)

\* variant: the sleep request overwrites the exec-state field
case_S_Overwrite(c) ==
  IF Char(c.line, 2) # "L" \/ Char(c.line, 3) # "P" \/ Char(c.line, 4) # NUL
  THEN Return(c, STATUS_INVALID_STATEMENT)
  ELSE
    LET c1 == [Do(c, "system_set_exec_state_flag", <<>>, EXEC_SLEEP, NoStatus)
                 EXCEPT !.exec = EXEC_SLEEP]
    IN  Return(IF MASLOWCNC
               THEN Do(c1, "motorsDisabled", <<>>, 0, NoStatus)
               ELSE c1, STATUS_OK)

\* case 'S' : Puts Grbl to sleep [IDLE/ALARM]
case_S(c) ==
  IF Char(c.line, 2) # "L" \/ Char(c.line, 3) # "P" \/ Char(c.line, 4) # NUL
  THEN Return(c, STATUS_INVALID_STATEMENT)
  ELSE
    LET c1 == [Do(c, "system_set_exec_state_flag", <<>>, EXEC_SLEEP, NoStatus)
                 EXCEPT !.exec = system_set_exec_state_flag(@, EXEC_SLEEP)]
    IN  Return(IF MASLOWCNC
               THEN Do(c1, "motorsDisabled", <<>>, 0, NoStatus)
               ELSE c1, STATUS_OK)

\* case 'I' : Print or store build info. [IDLE/ALARM]
case_I(c) ==
  IF Char(c.line, 2) = NUL
  THEN Return(Do(Do(c, "settings_read_build_info", <<>>, 0, NoStatus),
                 "report_build_info", <<>>, 0, NoStatus), STATUS_OK)
  ELSE IF ENABLE_BUILD_INFO_WRITE_COMMAND
  THEN IF Char(c.line, 2) # "=" THEN Return(c, STATUS_INVALID_STATEMENT)
       ELSE LET c1 == [c EXCEPT !.line = ShiftLeft(c.line, 3)]
            IN  Return(Do(c1, "settings_store_build_info", c1.line, 0,
                          NoStatus), STATUS_OK)
  ELSE Return(c, STATUS_OK)

\* variant: the reset is forced before the settings are restored
case_R_ResetFirst(c) ==
  LET restore(kind) ==
        Return(Do(Do(mc_reset(c), "settings_restore", <<kind>>, 0, NoStatus),
                  "report_feedback_message", <<>>, 0, NoStatus), STATUS_OK)
  IN
  IF Char(c.line, 2) # "S" \/ Char(c.line, 3) # "T" \/ Char(c.line, 4) # "="
     \/ Char(c.line, 6) # NUL
  THEN Return(c, STATUS_INVALID_STATEMENT)
  ELSE CASE Char(c.line, 5) = "$" /\ ENABLE_RESTORE_EEPROM_DEFAULT_SETTINGS ->
              restore("SETTINGS_RESTORE_DEFAULTS")
         [] Char(c.line, 5) = "#" /\ ENABLE_RESTORE_EEPROM_CLEAR_PARAMETERS ->
              restore("SETTINGS_RESTORE_PARAMETERS")
         [] Char(c.line, 5) = "*" /\ ENABLE_RESTORE_EEPROM_WIPE_ALL ->
              restore("SETTINGS_RESTORE_ALL")
         [] OTHER -> Return(c, STATUS_INVALID_STATEMENT)

\* case 'R' : Restore defaults [IDLE/ALARM]
case_R(c) ==
  LET restore(kind) ==
        Return(mc_reset(Do(Do(c, "settings_restore", <<kind>>, 0, NoStatus),
                              "report_feedback_message", <<>>, 0, NoStatus)),
               STATUS_OK)
  IN
  IF Char(c.line, 2) # "S" \/ Char(c.line, 3) # "T" \/ Char(c.line, 4) # "="
     \/ Char(c.line, 6) # NUL
  THEN Return(c, STATUS_INVALID_STATEMENT)
  ELSE CASE Char(c.line, 5) = "$" /\ ENABLE_RESTORE_EEPROM_DEFAULT_SETTINGS ->
              restore("SETTINGS_RESTORE_DEFAULTS")
         [] Char(c.line, 5) = "#" /\ ENABLE_RESTORE_EEPROM_CLEAR_PARAMETERS ->
              restore("SETTINGS_RESTORE_PARAMETERS")
         [] Char(c.line, 5) = "*" /\ ENABLE_RESTORE_EEPROM_WIPE_ALL ->
              restore("SETTINGS_RESTORE_ALL")
         [] OTHER -> Return(c, STATUS_INVALID_STATEMENT)

\* settings_store_startup_line(n, line): the slots the store has
store_startup_line(c, n) ==
  LET c1 == Do(c, "settings_store_startup_line", c.line, n, NoStatus) IN
  IF n \in 0..(N_STARTUP_LINE - 1)
  THEN [c1 EXCEPT !.startup = [@ EXCEPT ![n] = c.line]]
  ELSE c1

\* variant: the startup line is stored whatever the G-code parser answers
case_store_NoGcCheck(c, cc, helper_var, orc) ==
  LET parameter == read_float(c.line, cc) IN
  IF ~parameter.ok THEN Return(c, STATUS_BAD_NUMBER_FORMAT)
  ELSE IF Char(c.line, parameter.next) # "="
  THEN Return(c, STATUS_INVALID_STATEMENT)
  ELSE
    LET start == parameter.next + 1 IN
    IF helper_var
    THEN \* shift the block to the front; char_counter ends at strlen + 1
      LET c1 == [c EXCEPT !.line = ShiftLeft(c.line, start)] IN
      IF (Len(c.line) + 1) % 256 > EEPROM_LINE_SIZE
      THEN Return(c1, STATUS_LINE_LENGTH_EXCEEDED)
      ELSE
        LET c2 == Do(c1, "gc_execute_line", c1.line, 0, orc.gc) IN
        Return(store_startup_line(c2, Trunc(parameter) % 256), orc.gc)
    ELSE
      LET value == read_float(c.line, start) IN
      IF ~value.ok THEN Return(c, STATUS_BAD_NUMBER_FORMAT)
      ELSE IF Char(c.line, value.next) # NUL \/ GreaterThan255(parameter)
      THEN Return(c, STATUS_INVALID_STATEMENT)
      ELSE
        LET n == CastUint8(parameter, orc.ub)
            c1 == Do(c, "settings_store_global_setting",
                     <<value.neg, value.ip, value.fr>>, n, orc.store)
        IN  Return(IF orc.store = STATUS_OK
                   THEN [c1 EXCEPT !.setting =
                           <<n, <<value.neg, value.ip, value.fr>>>>]
                   ELSE c1, orc.store)

\* default : Storing setting methods [IDLE/ALARM]; char_counter is cc and
\* helper_var tells whether a startup line is being stored
case_store(c, cc, helper_var, orc) ==
  LET parameter == read_float(c.line, cc) IN
  IF ~parameter.ok THEN Return(c, STATUS_BAD_NUMBER_FORMAT)
  ELSE IF Char(c.line, parameter.next) # "="
  THEN Return(c, STATUS_INVALID_STATEMENT)
  ELSE
    LET start == parameter.next + 1 IN
    IF helper_var
    THEN \* shift the block to the front; char_counter ends at strlen + 1
      LET c1 == [c EXCEPT !.line = ShiftLeft(c.line, start)] IN
      IF (Len(c.line) + 1) % 256 > EEPROM_LINE_SIZE
      THEN Return(c1, STATUS_LINE_LENGTH_EXCEEDED)
      ELSE
        LET c2 == Do(c1, "gc_execute_line", c1.line, 0, orc.gc) IN
        IF orc.gc # STATUS_OK THEN Return(c2, orc.gc)
        ELSE Return(store_startup_line(c2, Trunc(parameter) % 256), STATUS_OK)
    ELSE
      LET value == read_float(c.line, start) IN
      IF ~value.ok THEN Return(c, STATUS_BAD_NUMBER_FORMAT)
      ELSE IF Char(c.line, value.next) # NUL \/ GreaterThan255(parameter)
      THEN Return(c, STATUS_INVALID_STATEMENT)
      ELSE
        LET n == CastUint8(parameter, orc.ub)
            c1 == Do(c, "settings_store_global_setting",
                     <<value.neg, value.ip, value.fr>>, n, orc.store)
        IN  Return(IF orc.store = STATUS_OK
                   THEN [c1 EXCEPT !.setting =
                           <<n, <<value.neg, value.ip, value.fr>>>>]
                   ELSE c1, orc.store)

\* for (helper_var=0; helper_var < N_STARTUP_LINE; helper_var++): print
\* the startup lines; a slot that is read replaces the buffer
RECURSIVE PrintStartupFrom(_, _, _)
PrintStartupFrom(c, n, rd) ==
  IF n >= N_STARTUP_LINE THEN c
  ELSE IF rd[n]
  THEN PrintStartupFrom(
         Do([c EXCEPT !.line = c.startup[n]], "report_startup_line",
            c.startup[n], n, NoStatus), n + 1, rd)
  ELSE PrintStartupFrom(
         Do(c, "report_status_message", <<>>, n, STATUS_SETTING_READ_FAIL),
         n + 1, rd)

\* variant: a startup line is validated and stored in the alarm state too
case_N_FromAlarm(c, orc) ==
  IF Char(c.line, 2) = NUL
  THEN Return(PrintStartupFrom(c, 0, orc.rd), STATUS_OK)
  ELSE case_store(c, 2, TRUE, orc)

\* case 'N' : Startup lines. [IDLE/ALARM]
case_N(c, orc) ==
  IF Char(c.line, 2) = NUL
  THEN Return(PrintStartupFrom(c, 0, orc.rd), STATUS_OK)
  ELSE IF c.state # STATE_IDLE THEN Return(c, STATUS_IDLE_ERROR)
  ELSE case_store(c, 2, TRUE, orc)

\* switch( line[1] ) of the commands that require IDLE/ALARM
gated_switch(c, orc) ==
       CASE Char(c.line, 1) = "|" /\ MASLOWCNC ->
              Return(Do(c, "EEPROM_viewer", <<>>, 0, NoStatus), STATUS_OK)
         [] Char(c.line, 1) = "#" ->
              IF Char(c.line, 2) # NUL
              THEN Return(c, STATUS_INVALID_STATEMENT)
              ELSE Return(Do(c, "report_ngc_parameters", <<>>, 0, NoStatus),
                          STATUS_OK)
         [] Char(c.line, 1) = "H" -> case_H(c)
         [] Char(c.line, 1) = "S" -> case_S(c)
         [] Char(c.line, 1) = "I" -> case_I(c)
         [] Char(c.line, 1) = "R" -> case_R(c)
         [] Char(c.line, 1) = "N" -> case_N(c, orc)
         [] OTHER -> case_store(c, 1, FALSE, orc)

\* variant: the gate lets a feed hold through
case_gated_HoldAllowed(c, orc) ==
  IF ~(c.state = STATE_IDLE \/ c.state = STATE_ALARM \/ c.state = STATE_HOLD)
  THEN Return(c, STATUS_IDLE_ERROR)
  ELSE gated_switch(c, orc)

\* default : Block any system command that requires the state as IDLE/ALARM
case_gated(c, orc) ==
  IF ~(c.state = STATE_IDLE \/ c.state = STATE_ALARM)
  THEN Return(c, STATUS_IDLE_ERROR)
  ELSE gated_switch(c, orc)

\* system_execute_line up to its return or to the call of mc_homing_cycle
system_execute_line(c, orc) ==
  CASE Char(c.line, 1) = NUL -> case_help(c)
    [] Char(c.line, 1) = "J" -> case_J(c, orc)
    [] Char(c.line, 1) \in {"$", "G", "C", "X"} -> case_query(c)
    [] OTHER -> case_gated(c, orc)

----------------------------------------------------------------------------
(* The dispatcher as a process.                                            *)

GcStatuses == {STATUS_OK, STATUS_GCODE_UNSUPPORTED_COMMAND}
StoreStatuses == {STATUS_OK, STATUS_INVALID_STATEMENT}
Slots == 0..(N_STARTUP_LINE - 1)

\* What the collaborators answer during one call: gc is the status of
\* gc_execute_line, store the status of settings_store_global_setting, rd
\* tells which startup slots can be read, ub is the outcome of the undefined
\* float conversion.  One call consults at most one of the G-code parser,
\* the settings store and the startup-line reader.
Oracles ==
  { o \in [gc : GcStatuses, store : StoreStatuses, ub : {"zero", "wrap"},
           rd : [Slots -> BOOLEAN]] :
      Cardinality({k \in {"gc", "store", "rd"} :
                     CASE k = "gc" -> o.gc # STATUS_OK
                       [] k = "store" -> o.store # STATUS_OK
                       [] OTHER -> \E n \in Slots : ~o.rd[n]}) <= 1 }

Machine ==
  [state |-> sys_state, abort |-> sys_abort, homing_enable |-> homing_enable,
   door |-> door_pin, line |-> line, startup |-> startup_lines,
   setting |-> global_setting, exec |-> sys_rt_exec_state, calls |-> calls,
   status |-> status, pc |-> pc]

Snapshot ==
  [state |-> sys_state, door |-> door_pin, startup |-> startup_lines,
   setting |-> global_setting, fields |-> Fields,
   homing_enable |-> homing_enable]

NoSnapshot ==
  [state |-> STATE_IDLE, door |-> FALSE, startup |-> [n \in Slots |-> <<>>],
   setting |-> <<>>,
   fields |-> NoFields,
   homing_enable |-> FALSE]

Commit(c) ==
  /\ sys_state' = c.state
  /\ line' = c.line
  /\ startup_lines' = c.startup
  /\ global_setting' = c.setting
  /\ sys_rt_exec_state' = c.exec
  /\ calls' = c.calls
  /\ status' = c.status
  /\ pc' = c.pc

\* protocol_main_loop hands one line to system_execute_line
Call(l, orc) ==
  /\ pc = "idle"
  /\ Commit(system_execute_line(
              [Machine EXCEPT !.line = l, !.calls = <<>>,
                              !.status = NoStatus], orc))
  /\ cmd' = l
  /\ entry' = Snapshot
  /\ UNCHANGED <<auxVars, flagVars, sys_abort, homing_enable, single_axis, door_pin>>

\* the asynchronous reset path acts while the homing cycle runs
HomingReset ==
  /\ pc = "homing"
  /\ ~sys_abort
  /\ sys_abort' = TRUE
  /\ sys_state' \in {sys_state, STATE_ALARM}
  /\ UNCHANGED <<auxVars, sys_rt_exec_state, flagVars, homing_enable, single_axis,
                 door_pin, startup_lines, global_setting, line, cmd, pc,
                 status, calls, entry>>

\* mc_homing_cycle returns and the call runs to its end
HomingReturn(rd, gs) ==
  /\ pc = "homing"
  /\ Commit(case_H_done(Machine, rd, gs))
  /\ UNCHANGED <<auxVars, flagVars, sys_abort, homing_enable, single_axis, door_pin,
                 cmd, entry>>

\* a reset is pending: sys.abort is set or EXEC_RESET is raised
ResetPending == sys_abort \/ BitAnd(sys_rt_exec_state, EXEC_RESET) # 0

\* the status goes back to the main loop; a pending reset re-initialises
ReturnToMain ==
  /\ pc = "ret"
  /\ pc' = "idle"
  /\ line' = <<>>
  /\ cmd' = <<>>
  /\ calls' = <<>>
  /\ status' = NoStatus
  /\ entry' = NoSnapshot
  /\ sys_abort' = FALSE
  /\ sys_state' = IF ResetPending
                  THEN (IF sys_state \in {STATE_ALARM, STATE_SLEEP}
                        THEN STATE_ALARM ELSE STATE_IDLE)
                  ELSE sys_state
  /\ sys_rt_exec_state' = IF ResetPending THEN 0 ELSE sys_rt_exec_state
  /\ UNCHANGED <<auxVars, flagVars, homing_enable, single_axis, door_pin,
                 startup_lines, global_setting>>

\* the other layers drive the machine state between two lines
ExternalTransition(s) ==
  /\ pc = "idle"
  /\ s # sys_state
  /\ sys_state' = s
  /\ UNCHANGED <<auxVars, sys_rt_exec_state, flagVars, sys_abort, homing_enable,
                 single_axis, door_pin, startup_lines, global_setting, line,
                 cmd, pc, status, calls, entry>>

\* the safety-door input changes
DoorChange ==
  /\ pc = "idle"
  /\ door_pin' = ~door_pin
  /\ UNCHANGED <<auxVars, sys_rt_exec_state, flagVars, sys_state, sys_abort,
                 homing_enable, single_axis, startup_lines, global_setting,
                 line, cmd, pc, status, calls, entry>>

\* the real-time layer raises and consumes exec-state flags between lines
ExecFlagEvent(mask) ==
  /\ pc = "idle"
  /\ sys_rt_exec_state' =
       IF BitAnd(sys_rt_exec_state, mask) = 0
       THEN system_set_exec_state_flag(sys_rt_exec_state, mask)
       ELSE system_clear_exec_state_flag(sys_rt_exec_state, mask)
  /\ UNCHANGED <<auxVars, flagVars, dispVars>>

----------------------------------------------------------------------------
(* system_execute_startup as a process: one step per slot of its loop.     *)

StartupBlocks == {<<>>, <<"G">>}

\* for (n=0; n < N_STARTUP_LINE; n++) { ... }: the body for slot su_n
StartupStep ==
  /\ su_pc = "loop"
  /\ su_n < N_STARTUP_LINE
  /\ Commit(StartupSlot(Machine, su_n, su_rd, su_gs))
  /\ su_n' = su_n + 1
  /\ UNCHANGED <<flagVars, sys_abort, homing_enable, single_axis, door_pin,
                 cmd, entry, su_pc, su_rd, su_gs, kinVars, limitVars>>

\* the loop condition fails and system_execute_startup returns
StartupExit ==
  /\ su_pc = "loop"
  /\ ~(su_n < N_STARTUP_LINE)
  /\ su_pc' = "done"
  /\ UNCHANGED <<sys_rt_exec_state, flagVars, dispVars, su_n, su_rd, su_gs,
                 kinVars, limitVars>>

StartupOff ==
  /\ su_pc = "off"
  /\ su_n = 0
  /\ su_rd = [n \in Slots |-> TRUE]
  /\ su_gs = [n \in Slots |-> STATUS_OK]

----------------------------------------------------------------------------
(* triangularForward.  A float is a record: a number, counted in units of  *)
(* KINEMATICS_MAX_ERR, or NaN, for which every comparison is false.  The   *)
(* arithmetic of triangularInverse is not computed: each evaluation may    *)
(* return any pair of InverseLengths.                                      *)

KINEMATICS_MAX_GUESS == 200
KINEMATICS_MAX_ERR == 1
\* settings.chainLength, in the same unit
chainLength == 6
\* the guesses stay within MaxCoord of the centre of a window
MaxCoord == 2
\* the windows of the workspace that are explored: around the origin and
\* around 1 mm (X) and -1 mm (Y), where the integer part changes
XWindows == {0, 100}
YWindows == {0, -100}

N_AXIS == 3
X_AXIS == 0
Y_AXIS == 1
Z_AXIS == 2
Axes == 0..(N_AXIS - 1)
LEFT_MOTOR == 0
RIGHT_MOTOR == 1
\* one millimetre in units of KINEMATICS_MAX_ERR (0.01 mm)
UnitsPerMM == 100
\* settings.steps_per_mm, doubled: 8, 8.5 and 8 steps per mm
steps_per_mm ==
  [idx \in Axes |-> CASE idx = X_AXIS -> 16 [] idx = Y_AXIS -> 17 [] OTHER -> 16]

\* conversion of a number to an integer type: the fraction is dropped
TruncDiv(n, d) == IF n >= 0 THEN n \div d ELSE 0 - ((0 - n) \div d)

\* (int32_t) of a position in mm
IntPart(pos) == TruncDiv(pos.v, UnitsPerMM)

\* variant: the position is multiplied by steps_per_mm before it is truncated
ToSteps_MultiplyFirst(pos, idx) ==
  TruncDiv(pos.v * steps_per_mm[idx], 2 * UnitsPerMM)

\* *x_steps = (int32_t) _xLastPosition * settings.steps_per_mm[X_AXIS];
\* the cast applies to the position, the float product is converted to
\* int32_t by the assignment
ToSteps(pos, idx) == TruncDiv(IntPart(pos) * steps_per_mm[idx], 2)

\* (float)x_steps / settings.steps_per_mm[LEFT_MOTOR], as a fraction
ToMpos(steps, idx) == [num |-> 2 * steps, den |-> steps_per_mm[idx]]

NaN == [nan |-> TRUE, v |-> 0]
Flt(v) == [nan |-> FALSE, v |-> v]
fadd(a, b) == IF a.nan \/ b.nan THEN NaN ELSE Flt(a.v + b.v)
fsub(a, b) == IF a.nan \/ b.nan THEN NaN ELSE Flt(a.v - b.v)
\* abs(x): ((x)>0?(x):-(x))
fabs(a) == IF a.nan THEN NaN ELSE Flt(IF a.v > 0 THEN a.v ELSE 0 - a.v)
fle(a, b) == ~a.nan /\ ~b.nan /\ a.v <= b.v
fgt(a, b) == ~a.nan /\ ~b.nan /\ a.v > b.v

\* chain lengths asked for: one within settings.chainLength, one beyond
ChainTargets == {Flt(3), Flt(7)}
\* chain lengths triangularInverse may answer
InverseLengths == {Flt(1), Flt(3), Flt(5), Flt(7), NaN}

InBox(a, windows) ==
  a.nan \/ \E w \in windows : a.v >= w - MaxCoord /\ a.v <= w + MaxCoord

\* variant: the first guess is the machine origin
ForwardSeed_Origin(xPos, yPos) == <<Flt(0), Flt(0)>>

\* float xGuess = *xPos, yGuess = *yPos;
ForwardSeed(xPos, yPos) == <<xPos, yPos>>

\* abs(aChainError) <= KINEMATICS_MAX_ERR && abs(bChainError) <= ...
Converged(aChainError, bChainError) ==
  /\ fle(fabs(aChainError), Flt(KINEMATICS_MAX_ERR))
  /\ fle(fabs(bChainError), Flt(KINEMATICS_MAX_ERR))

\* guessLengthA > settings.chainLength or guessLengthB > settings.chainLength
TooLong(guessLengthA, guessLengthB) ==
  fgt(guessLengthA, Flt(chainLength)) \/ fgt(guessLengthB, Flt(chainLength))

\* variant: the loop gives up one guess later
ForwardExit_OneMore(conv, count, guessLengthA, guessLengthB) ==
  \/ conv
  \/ count > KINEMATICS_MAX_GUESS + 1
  \/ TooLong(guessLengthA, guessLengthB)

\* if we've converged on the point...or it's time to give up, exit the loop
ForwardExit(conv, count, guessLengthA, guessLengthB) ==
  \/ conv
  \/ count > KINEMATICS_MAX_GUESS
  \/ TooLong(guessLengthA, guessLengthB)

\* variant: only the guess count selects the sentinel
ForwardFailed_CountOnly(count, guessLengthA, guessLengthB) ==
  count > KINEMATICS_MAX_GUESS

\* the test that selects the message and the (0, 0) result
ForwardFailed(count, guessLengthA, guessLengthB) ==
  count > KINEMATICS_MAX_GUESS \/ TooLong(guessLengthA, guessLengthB)

\* triangularForward(a, b, &_xLastPosition, &_yLastPosition) is entered
ForwardCall(a, b) ==
  /\ k_pc = "idle"
  /\ k_pc' = "loop"
  /\ chainALength' = a
  /\ chainBLength' = b
  /\ xGuess' = ForwardSeed(xLastPosition, yLastPosition)[1]
  /\ yGuess' = ForwardSeed(xLastPosition, yLastPosition)[2]
  /\ guessCount' = 0
  /\ k_evals' = 0
  /\ k_conv' = FALSE
  /\ k_over' = FALSE
  /\ k_msg' = FALSE
  /\ UNCHANGED <<sys_rt_exec_state, flagVars, dispVars, startupVars,
                 limitVars, xLastPosition, yLastPosition, x_steps, y_steps,
                 position>>

\* one turn of while(1): triangularInverse answers the two guessed lengths
ForwardIterate(guessLengthA, guessLengthB) ==
  LET aChainError == fsub(chainALength, guessLengthA)
      bChainError == fsub(chainBLength, guessLengthB)
      xNew == fsub(fadd(xGuess, aChainError), bChainError)
      yNew == fsub(fsub(yGuess, aChainError), bChainError)
      count == guessCount + 1
      conv == Converged(aChainError, bChainError)
  IN
  /\ k_pc = "loop"
  \* every term of triangularInverse is computed from both targets
  /\ (xGuess.nan \/ yGuess.nan) => (guessLengthA.nan /\ guessLengthB.nan)
  /\ InBox(xNew, XWindows) /\ InBox(yNew, YWindows)
  /\ k_evals' = k_evals + 1
  /\ xGuess' = xNew
  /\ yGuess' = yNew
  /\ guessCount' = count
  /\ k_conv' = conv
  /\ k_over' = TooLong(guessLengthA, guessLengthB)
  /\ IF ForwardExit(conv, count, guessLengthA, guessLengthB)
     THEN /\ k_pc' = "ret"
          /\ IF ForwardFailed(count, guessLengthA, guessLengthB)
             THEN /\ k_msg' = TRUE
                  /\ xLastPosition' = Flt(0)
                  /\ yLastPosition' = Flt(0)
             ELSE /\ k_msg' = FALSE
                  /\ xLastPosition' = xNew
                  /\ yLastPosition' = yNew
     ELSE /\ k_pc' = "loop"
          /\ UNCHANGED <<k_msg, xLastPosition, yLastPosition>>
  /\ UNCHANGED <<sys_rt_exec_state, flagVars, dispVars, startupVars,
                 limitVars, chainALength, chainBLength, x_steps, y_steps,
                 position>>

\* triangularForward returns through chainToPosition into
\* system_convert_maslow_to_xy_steps, which converts the position in the
\* seed cache to steps; system_convert_array_steps_to_mpos reports it
ForwardReturn ==
  /\ k_pc = "ret"
  /\ k_pc' = "idle"
  /\ x_steps' = ToSteps(xLastPosition, X_AXIS)
  /\ y_steps' = ToSteps(yLastPosition, Y_AXIS)
  /\ position' = [idx \in {X_AXIS, Y_AXIS} |->
                    IF idx = X_AXIS THEN ToMpos(x_steps', LEFT_MOTOR)
                    ELSE ToMpos(y_steps', RIGHT_MOTOR)]
  /\ chainALength' = Flt(0)
  /\ chainBLength' = Flt(0)
  /\ xGuess' = Flt(0)
  /\ yGuess' = Flt(0)
  /\ guessCount' = 0
  /\ k_evals' = 0
  /\ k_conv' = FALSE
  /\ k_over' = FALSE
  /\ k_msg' = FALSE
  /\ UNCHANGED <<sys_rt_exec_state, flagVars, dispVars, startupVars,
                 limitVars, xLastPosition, yLastPosition>>

KinematicsOff ==
  /\ k_pc = "idle"
  /\ chainALength = Flt(0)
  /\ chainBLength = Flt(0)
  /\ xGuess = Flt(0)
  /\ yGuess = Flt(0)
  /\ guessCount = 0
  /\ k_evals = 0
  /\ k_conv = FALSE
  /\ k_over = FALSE
  /\ k_msg = FALSE
  /\ xLastPosition = Flt(0)
  /\ yLastPosition = Flt(0)
  /\ x_steps = 0
  /\ y_steps = 0
  /\ position = [idx \in {X_AXIS, Y_AXIS} |->
                   IF idx = X_AXIS THEN ToMpos(0, LEFT_MOTOR)
                   ELSE ToMpos(0, RIGHT_MOTOR)]

----------------------------------------------------------------------------
(* system_check_travel_limits.  Targets and travel settings are whole      *)
(* numbers of millimetres; ht = max_travel / -2.0f is kept exact by        *)
(* comparing the doubled target with the doubled ht.  The build does not   *)
(* define HOMING_FORCE_SET_ORIGIN, so the first branch is not compiled.    *)


Vec(x, y, z) ==
  [idx \in Axes |-> CASE idx = X_AXIS -> x [] idx = Y_AXIS -> y [] OTHER -> z]

\* variant: a target on the limit counts as beyond it
AxisExceeds_OnLimit(target, st, idx) ==
  IF MASLOWCNC
  THEN IF idx = Z_AXIS
       THEN target[idx] >= st.zTravelMin \/ target[idx] <= st.max_travel[idx]
       ELSE LET ht2 == 0 - st.max_travel[idx]
            IN  2 * target[idx] <= 0 - ht2 \/ 2 * target[idx] >= ht2
  ELSE target[idx] >= 0 \/ target[idx] <= st.max_travel[idx]

\* the body of the loop over the axes: whether it returns true for idx
AxisExceeds(target, st, idx) ==
  IF MASLOWCNC
  THEN IF idx = Z_AXIS
       THEN target[idx] > st.zTravelMin \/ target[idx] < st.max_travel[idx]
       ELSE LET ht2 == 0 - st.max_travel[idx]
            IN  2 * target[idx] < 0 - ht2 \/ 2 * target[idx] > ht2
  ELSE target[idx] > 0 \/ target[idx] < st.max_travel[idx]

RECURSIVE CheckAxesFrom(_, _, _)
CheckAxesFrom(target, st, idx) ==
  IF idx >= N_AXIS THEN FALSE
  ELSE IF AxisExceeds(target, st, idx) THEN TRUE
  ELSE CheckAxesFrom(target, st, idx + 1)

\* Checks and reports if target array exceeds machine travel limits.
system_check_travel_limits(target, st) == CheckAxesFrom(target, st, 0)

LimitSettings ==
  [max_travel : {Vec(-2000, -1500, -100), Vec(-3, -4, -1)},
   zTravelMin : {0, 2}]

LimitTargets ==
  { Vec(x, y, z) : x \in {-1001, -1000, -2, -1, 0, 1, 2, 1000, 1001},
                   y \in {-751, -750, -3, -2, 0, 2, 3, 750, 751},
                   z \in {-101, -100, -50, -2, -1, 0, 2, 3, 5} }

\* the planner asks whether a target is beyond the soft limits
CheckTravelLimits(target) ==
  /\ lim_pc = "idle"
  /\ lim_pc' = "ret"
  /\ lim_target' = target
  /\ lim_result' = system_check_travel_limits(target, lim_settings)
  /\ UNCHANGED <<sys_rt_exec_state, flagVars, dispVars, startupVars, kinVars,
                 lim_settings>>

LimitsReturn ==
  /\ lim_pc = "ret"
  /\ lim_pc' = "idle"
  /\ lim_target' = Vec(0, 0, 0)
  /\ lim_result' = FALSE
  /\ UNCHANGED <<sys_rt_exec_state, flagVars, dispVars, startupVars, kinVars,
                 lim_settings>>

LimitsOff ==
  /\ lim_pc = "idle"
  /\ lim_settings = [max_travel |-> Vec(-2000, -1500, -100), zTravelMin |-> 0]
  /\ lim_target = Vec(0, 0, 0)
  /\ lim_result = FALSE

----------------------------------------------------------------------------
(* Initial states and specifications.                                      *)

InitFlagStore ==
  /\ sys_rt_exec_state = 0
  /\ sys_rt_exec_alarm = 0
  /\ sys_rt_exec_motion_override = 0
  /\ sys_rt_exec_accessory_override = 0
  /\ irq = TRUE
  /\ m_pc = "idle"
  /\ m_op = "set_state"
  /\ m_arg = 0
  /\ m_reg = 0
  /\ m_sreg = TRUE
  /\ m_irq0 = TRUE
  /\ m_old = NoFields
  /\ isr_set = 0
  /\ isr_any = FALSE

InitDispatcher ==
  /\ sys_abort = FALSE
  /\ startup_lines = [n \in Slots |-> IF n = 0 THEN <<"G">> ELSE <<>>]
  /\ global_setting = <<>>
  /\ line = <<>>
  /\ cmd = <<>>
  /\ pc = "idle"
  /\ status = NoStatus
  /\ calls = <<>>
  /\ entry = NoSnapshot

Init ==
  /\ InitFlagStore
  /\ InitDispatcher
  /\ StartupOff
  /\ KinematicsOff
  /\ LimitsOff
  /\ sys_state \in {STATE_IDLE, STATE_ALARM}
  /\ homing_enable \in BOOLEAN
  /\ single_axis \in BOOLEAN
  /\ door_pin \in BOOLEAN

Next ==
  \/ \E l \in Lines, orc \in Oracles : Call(l, orc)
  \/ HomingReset
  \/ \E rd \in [Slots -> BOOLEAN], gs \in [Slots -> GcStatuses] :
       HomingReturn(rd, gs)
  \/ ReturnToMain
  \/ \E s \in States : ExternalTransition(s)
  \/ DoorChange
  \/ ExecFlagEvent(EXEC_CYCLE_START)

Spec == Init /\ [][Next]_vars

InitFlags ==
  /\ InitFlagStore
  /\ InitDispatcher
  /\ StartupOff
  /\ KinematicsOff
  /\ LimitsOff
  /\ sys_state = STATE_IDLE
  /\ homing_enable = FALSE
  /\ single_axis = FALSE
  /\ door_pin = FALSE

NextFlags ==
  \/ \E op \in Mutators : \E arg \in ArgsOf(op) : MutatorEnter(op, arg)
  \/ MutatorLoad
  \/ MutatorStore
  \/ MutatorExit
  \/ MutatorReturn
  \/ \E op \in SetMutators : \E arg \in ArgsOf(op) : Interrupt(op, arg)
  \/ SetInterruptEnable

SpecFlags == InitFlags /\ [][NextFlags]_vars

\* system_execute_startup is entered with any stored blocks and any answers
\* of the startup-line reader and of the G-code parser
InitStartup ==
  /\ InitFlagStore
  /\ sys_abort = FALSE
  /\ startup_lines \in [Slots -> StartupBlocks]
  /\ global_setting = <<>>
  /\ line = <<>>
  /\ cmd = <<>>
  /\ pc = "idle"
  /\ status = NoStatus
  /\ calls = <<>>
  /\ entry = NoSnapshot
  /\ sys_state = STATE_IDLE
  /\ homing_enable = FALSE
  /\ single_axis = FALSE
  /\ door_pin = FALSE
  /\ su_pc = "loop"
  /\ su_n = 0
  /\ su_rd \in [Slots -> BOOLEAN]
  /\ su_gs \in [Slots -> GcStatuses]
  /\ KinematicsOff
  /\ LimitsOff

NextStartup ==
  \/ StartupStep
  \/ StartupExit

\* the loop is sequential code: it runs as long as it can
SpecStartup == InitStartup /\ [][NextStartup]_vars /\ WF_vars(NextStartup)

\* the seed cache holds the position of the last conversion, in one of the
\* windows, and the step counts are those of that conversion
InitKinematics ==
  /\ InitFlagStore
  /\ InitDispatcher
  /\ sys_state = STATE_IDLE
  /\ homing_enable = FALSE
  /\ single_axis = FALSE
  /\ door_pin = FALSE
  /\ StartupOff
  /\ LimitsOff
  /\ k_pc = "idle"
  /\ chainALength = Flt(0)
  /\ chainBLength = Flt(0)
  /\ xGuess = Flt(0)
  /\ yGuess = Flt(0)
  /\ guessCount = 0
  /\ k_evals = 0
  /\ k_conv = FALSE
  /\ k_over = FALSE
  /\ k_msg = FALSE
  /\ xLastPosition \in {Flt(w) : w \in XWindows}
  /\ yLastPosition \in {Flt(w) : w \in YWindows}
  /\ x_steps = ToSteps(xLastPosition, X_AXIS)
  /\ y_steps = ToSteps(yLastPosition, Y_AXIS)
  /\ position = [idx \in {X_AXIS, Y_AXIS} |->
                   IF idx = X_AXIS THEN ToMpos(x_steps, LEFT_MOTOR)
                   ELSE ToMpos(y_steps, RIGHT_MOTOR)]

NextKinematics ==
  \/ \E a \in ChainTargets, b \in ChainTargets : ForwardCall(a, b)
  \/ \E la \in InverseLengths, lb \in InverseLengths : ForwardIterate(la, lb)
  \/ ForwardReturn

SpecKinematics == InitKinematics /\ [][NextKinematics]_vars

InitLimits ==
  /\ InitFlagStore
  /\ InitDispatcher
  /\ sys_state = STATE_IDLE
  /\ homing_enable = FALSE
  /\ single_axis = FALSE
  /\ door_pin = FALSE
  /\ StartupOff
  /\ KinematicsOff
  /\ lim_pc = "idle"
  /\ lim_settings \in LimitSettings
  /\ lim_target = Vec(0, 0, 0)
  /\ lim_result = FALSE

NextLimits ==
  \/ \E target \in LimitTargets : CheckTravelLimits(target)
  \/ LimitsReturn

SpecLimits == InitLimits /\ [][NextLimits]_vars

----------------------------------------------------------------------------
(* Properties.                                                             *)

HomingStarted == \E i \in 1..Len(calls) : calls[i].ev = "mc_homing_cycle"
StateWrite(e, s) == e.ev = "sys.state" /\ e.code = s
InputErrors == {STATUS_INVALID_STATEMENT, STATUS_BAD_NUMBER_FORMAT,
                STATUS_LINE_LENGTH_EXCEEDED}
StartupEvents == {"settings_read_startup_line", "gc_execute_line",
                  "report_execute_startup_message"}
WellFormedHoming(l) ==
  \/ l = <<"$", "H">>
  \/ single_axis /\ Len(l) = 3 /\ Char(l, 1) = "H"
       /\ Char(l, 2) \in {"X", "Y", "Z"}

\* C1: when interrupts ran set_state(A) during a main-loop clear_state(B)
\* with A and B disjoint, then after the call has returned every bit of A
\* is set and every bit of B is clear in sys_rt_exec_state.
C1_NoLostUpdate ==
  (m_pc = "done" /\ m_op = "clear_state" /\ isr_set # 0
     /\ BitAnd(isr_set, m_arg) = 0)
  => (BitAnd(sys_rt_exec_state, isr_set) = isr_set
        /\ BitAnd(sys_rt_exec_state, m_arg) = 0)

\* C2: a mutator stores its update only while interrupts are disabled, and
\* on return the interrupt-enable status is what it was on entry.
C2_UpdateUnderExclusion ==
  /\ m_pc = "store" => ~irq
  /\ m_pc = "done" => irq = m_irq0

\* C3: whenever system_execute_line returns InvalidStatement,
\* BadNumberFormat or LineLengthExceeded, sys.state is what it was before
\* the call.
C3_InputErrorKeepsState ==
  (pc = "ret" /\ status \in InputErrors) => sys_state = entry.state

\* C4: a line whose second character is not NUL, J, $, G, C or X, received
\* in a state other than Idle and Alarm, returns IdleError and does nothing:
\* no collaborator is called and sys.state, the settings, the startup lines
\* and the exec flags are as on entry.
C4_GateNoSideEffect ==
  (pc # "idle" /\ Char(cmd, 1) \notin {NUL, "J", "$", "G", "C", "X"}
     /\ entry.state \notin {STATE_IDLE, STATE_ALARM})
  => /\ pc = "ret"
     /\ status = STATUS_IDLE_ERROR
     /\ calls = <<>>
     /\ sys_state = entry.state
     /\ global_setting = entry.setting
     /\ startup_lines = entry.startup
     /\ homing_enable = entry.homing_enable
     /\ Fields = entry.fields

C4_Witness ==
  /\ pc = "ret"
  /\ cmd = <<"$", "R", "S", "T", "=", "$">>
  /\ entry.state = STATE_HOLD
  /\ status = STATUS_IDLE_ERROR

\* C5: every assignment the dispatcher makes to sys.state is Idle to
\* CheckMode in $C, Idle or Alarm to Homing in $H, Homing to Idle at the end
\* of $H, or Alarm to Idle in $X.
C5_DispatcherTransitions ==
  \A i \in 1..Len(calls) :
    calls[i].ev = "sys.state" =>
      \/ Char(cmd, 1) = "C" /\ calls[i].st = STATE_IDLE
           /\ calls[i].code = STATE_CHECK_MODE
      \/ Char(cmd, 1) = "H" /\ calls[i].st \in {STATE_IDLE, STATE_ALARM}
           /\ calls[i].code = STATE_HOMING
      \/ Char(cmd, 1) = "H" /\ calls[i].st = STATE_HOMING
           /\ calls[i].code = STATE_IDLE
      \/ Char(cmd, 1) = "X" /\ calls[i].st = STATE_ALARM
           /\ calls[i].code = STATE_IDLE

C5_Witness ==
  /\ pc = "ret"
  /\ cmd = <<"$", "X">>
  /\ entry.state = STATE_ALARM
  /\ sys_state = STATE_IDLE
  /\ \E i \in 1..Len(calls) : StateWrite(calls[i], STATE_IDLE)

\* C6: an accepted $H whose homing cycle returns with the abort flag clear
\* has set Homing, run the homing cycle, set Idle, called st_go_idle, in
\* this order, then replayed the startup script exactly when the line has
\* no axis suffix, and returns Ok.
C6_HomingSequence ==
  (pc = "ret" /\ Char(cmd, 1) = "H" /\ WellFormedHoming(cmd)
     /\ entry.state \in {STATE_IDLE, STATE_ALARM} /\ entry.homing_enable
     /\ ~entry.door /\ ~sys_abort)
  => /\ status = STATUS_OK
     /\ sys_state = STATE_IDLE
     /\ Len(calls) >= 4
     /\ StateWrite(calls[1], STATE_HOMING)
     /\ calls[2].ev = "mc_homing_cycle" /\ calls[2].st = STATE_HOMING
     /\ StateWrite(calls[3], STATE_IDLE)
     /\ calls[4].ev = "st_go_idle"
     /\ \A i \in 5..Len(calls) : calls[i].ev \in StartupEvents
     /\ (Len(calls) > 4) <=> (Char(cmd, 2) = NUL)
     /\ Char(cmd, 2) = NUL =>
          Cardinality({i \in 5..Len(calls) :
                         calls[i].ev = "settings_read_startup_line"})
            = N_STARTUP_LINE

C6_Witness ==
  /\ pc = "ret"
  /\ cmd = <<"$", "H">>
  /\ entry.state = STATE_ALARM
  /\ ~sys_abort
  /\ status = STATUS_OK
  /\ \E i \in 5..Len(calls) : calls[i].ev = "gc_execute_line"

\* C7: when sys.abort is set at the moment the homing cycle of $H returns,
\* the rest of $H assigns nothing to sys.state and calls nothing: no
\* st_go_idle, no startup script.
C7_AbortedHomingStops ==
  [][(pc = "homing" /\ sys_abort /\ pc' = "ret")
       => (sys_state' = sys_state /\ calls' = calls)]_vars

C7_Witness ==
  /\ pc = "ret"
  /\ sys_abort
  /\ HomingStarted
  /\ cmd = <<"$", "H">>
  /\ sys_state = STATE_ALARM
  /\ Len(calls) = 2

C9_HomingDisabled ==
  (pc # "idle" /\ Char(cmd, 1) = "H"
     /\ entry.state \in {STATE_IDLE, STATE_ALARM} /\ ~entry.homing_enable)
  => /\ pc = "ret"
     /\ status = STATUS_SETTING_DISABLED
     /\ sys_state = entry.state
     /\ calls = <<>>

C9_Witness ==
  /\ pc = "ret"
  /\ cmd = <<"$", "H", "X">>
  /\ entry.state = STATE_ALARM
  /\ ~entry.homing_enable
  /\ status = STATUS_SETTING_DISABLED

\* C10: a $J line in a state other than Idle and Jog returns IdleError,
\* is not handed to gc_execute_line and leaves sys.state as it was; a $J=
\* line in Idle or Jog is handed unmodified to gc_execute_line, once, and
\* the status gc_execute_line returned is the status returned.
C10_JogGate ==
  (pc = "ret" /\ Char(cmd, 1) = "J")
  => /\ entry.state \notin {STATE_IDLE, STATE_JOG} =>
          (status = STATUS_IDLE_ERROR /\ calls = <<>>
             /\ sys_state = entry.state)
     /\ (entry.state \in {STATE_IDLE, STATE_JOG} /\ Char(cmd, 2) = "=") =>
          (Len(calls) = 1 /\ calls[1].ev = "gc_execute_line"
             /\ calls[1].arg = cmd /\ calls[1].st = entry.state
             /\ status = calls[1].code)

C10_Witness ==
  /\ pc = "ret"
  /\ cmd = <<"$", "J", "=", "G">>
  /\ entry.state = STATE_JOG
  /\ status = STATUS_GCODE_UNSUPPORTED_COMMAND
  /\ Len(calls) = 1

\* C11: $$ received in Cycle or Hold returns IdleError, prints no settings
\* report and changes neither sys.state nor a setting, a startup line or an
\* exec flag; received in any other state it prints the settings report and
\* returns Ok.
C11_SettingsReportGate ==
  (pc = "ret" /\ cmd = <<"$", "$">>)
  => IF entry.state \in {STATE_CYCLE, STATE_HOLD}
     THEN /\ status = STATUS_IDLE_ERROR
          /\ calls = <<>>
          /\ sys_state = entry.state
          /\ global_setting = entry.setting
          /\ startup_lines = entry.startup
          /\ Fields = entry.fields
     ELSE /\ status = STATUS_OK
          /\ Len(calls) = 1
          /\ calls[1].ev = "report_grbl_settings"
          /\ sys_state = entry.state

C11_Witness ==
  /\ pc = "ret"
  /\ cmd = <<"$", "$">>
  /\ entry.state = STATE_HOLD
  /\ status = STATUS_IDLE_ERROR
  /\ calls = <<>>

\* C12: $C received in Idle sets sys.state to CheckMode and returns Ok; $C
\* received in a state that is neither Idle nor CheckMode, Alarm included,
\* returns IdleError, calls nothing and leaves sys.state as it was.
C12_CheckModeOn ==
  (pc = "ret" /\ cmd = <<"$", "C">>)
  => /\ entry.state = STATE_IDLE =>
          (status = STATUS_OK /\ sys_state = STATE_CHECK_MODE
             /\ \E i \in 1..Len(calls) : StateWrite(calls[i], STATE_CHECK_MODE))
     /\ entry.state \notin {STATE_IDLE, STATE_CHECK_MODE} =>
          (status = STATUS_IDLE_ERROR /\ sys_state = entry.state
             /\ calls = <<>>)

C12_Witness ==
  /\ pc = "ret"
  /\ cmd = <<"$", "C">>
  /\ entry.state = STATE_ALARM
  /\ status = STATUS_IDLE_ERROR
  /\ sys_state = STATE_ALARM

\* C13: $C received in CheckMode calls mc_reset exactly once and returns
\* Ok, and once the command has been processed (the status is back in the
\* main loop, which serves the reset) sys.state is Idle.
C13_CheckModeOff ==
  [][(pc = "ret" /\ cmd = <<"$", "C">> /\ entry.state = STATE_CHECK_MODE)
       => /\ status = STATUS_OK
          /\ Cardinality({i \in 1..Len(calls) : calls[i].ev = "mc_reset"}) = 1
          /\ \A i \in 1..Len(calls) : calls[i].ev # "sys.state"
          /\ sys_state' = STATE_IDLE]_vars

C13_Witness ==
  /\ pc = "ret"
  /\ cmd = <<"$", "C">>
  /\ entry.state = STATE_CHECK_MODE
  /\ status = STATUS_OK
  /\ BitAnd(sys_rt_exec_state, EXEC_RESET) # 0

C15_StartupLineStore ==
  LET par == read_float(cmd, 2)
      block == ShiftLeft(cmd, par.next + 1)
      stores == {i \in 1..Len(calls) :
                   calls[i].ev = "settings_store_startup_line"}
  IN
  (pc = "ret" /\ Char(cmd, 1) = "N" /\ Char(cmd, 2) # NUL)
  => /\ \A i \in stores :
          /\ entry.state = STATE_IDLE
          /\ calls[i].st = STATE_IDLE
          /\ i > 1
          /\ calls[i - 1].ev = "gc_execute_line"
          /\ calls[i - 1].code = STATUS_OK
          /\ calls[i - 1].arg = block
          /\ calls[i].arg = block
     /\ entry.state = STATE_ALARM =>
          (status = STATUS_IDLE_ERROR /\ calls = <<>>
             /\ startup_lines = entry.startup)
     /\ \A i \in 1..Len(calls) :
          (calls[i].ev = "gc_execute_line" /\ calls[i].code # STATUS_OK) =>
            (status = calls[i].code /\ stores = {}
               /\ startup_lines = entry.startup)
     /\ (entry.state = STATE_IDLE /\ par.ok /\ Char(cmd, par.next) = "="
           /\ Len(block) > EEPROM_LINE_SIZE) =>
          (status = STATUS_LINE_LENGTH_EXCEEDED /\ calls = <<>>
             /\ startup_lines = entry.startup)

C15_Witness ==
  /\ pc = "ret"
  /\ cmd = <<"$", "N", "1", "=", "G">>
  /\ entry.state = STATE_IDLE
  /\ entry.startup[1] = <<>>
  /\ status = STATUS_OK
  /\ startup_lines[1] = <<"G">>
  /\ Len(calls) = 2
  /\ calls[2].ev = "settings_store_startup_line"

\* C16: for $<n>=<v> received in Idle or Alarm,
\* settings_store_global_setting is called, with the integer part of n as
\* the setting number and v as the value, and its status returned, only when
\* 0 <= n <= 255; for every n outside 0..255, negative n included, the
\* dispatcher returns InvalidStatement and no setting is stored.
C16_SettingNumberRange ==
  LET par == read_float(cmd, 1)
      val == read_float(cmd, par.next + 1)
      stores == {i \in 1..Len(calls) :
                   calls[i].ev = "settings_store_global_setting"}
      inRange == IF par.neg THEN par.ip = 0 /\ par.fr = 0
                 ELSE par.ip < 255 \/ (par.ip = 255 /\ par.fr = 0)
  IN
  (pc = "ret" /\ entry.state \in {STATE_IDLE, STATE_ALARM}
     /\ Char(cmd, 1) \in DigitChars \cup {"-", "+", "."}
     /\ par.ok /\ Char(cmd, par.next) = "="
     /\ val.ok /\ Char(cmd, val.next) = NUL)
  => IF inRange
     THEN /\ Len(calls) = 1
          /\ stores = {1}
          /\ calls[1].n = par.ip
          /\ calls[1].arg = <<val.neg, val.ip, val.fr>>
          /\ status = calls[1].code
     ELSE /\ status = STATUS_INVALID_STATEMENT
          /\ stores = {}
          /\ global_setting = entry.setting

EventView(e) == <<e.ev, e.arg, e.n, e.code>>

\* what the claim allows for slot n: the read, then one report of
\* SettingReadFail, or the block handed to the parser and its status
\* reported, or nothing for an empty block
ExpectedSlot(n) ==
  <<<<"settings_read_startup_line", <<>>, n, NoStatus>>>>
  \o (IF ~su_rd[n]
      THEN <<<<"report_execute_startup_message", <<>>, n,
               STATUS_SETTING_READ_FAIL>>>>
      ELSE IF startup_lines[n] # <<>>
      THEN << <<"gc_execute_line", startup_lines[n], n, su_gs[n]>>,
              <<"report_execute_startup_message", startup_lines[n], n,
                su_gs[n]>> >>
      ELSE <<>>)

RECURSIVE ExpectedUpTo(_)
ExpectedUpTo(k) ==
  IF k = 0 THEN <<>> ELSE ExpectedUpTo(k - 1) \o ExpectedSlot(k - 1)

\* C17: system_execute_startup terminates, and for every combination of
\* read failures and parser statuses it reads the slots 0 .. N_STARTUP_LINE-1
\* once each in increasing order; a failed read gives one report of
\* SettingReadFail and no execution, a non-empty block that was read is
\* handed once to gc_execute_line and its status reported, an empty block
\* gives neither; a failure in one slot does not stop the following slots.
C17_StartupRun ==
  /\ [](su_pc # "off" =>
          /\ su_n \in 0..N_STARTUP_LINE
          /\ [i \in 1..Len(calls) |-> EventView(calls[i])]
               = ExpectedUpTo(su_n)
          /\ su_pc = "done" => su_n = N_STARTUP_LINE)
  /\ <>(su_pc = "done")

C17_Witness ==
  /\ su_pc = "done"
  /\ ~su_rd[0]
  /\ su_rd[1]
  /\ startup_lines[1] = <<"G">>
  /\ su_gs[1] = STATUS_GCODE_UNSUPPORTED_COMMAND
  /\ Len(calls) = 5
  /\ calls[2].code = STATUS_SETTING_READ_FAIL
  /\ calls[4].ev = "gc_execute_line"

\* C18: triangularForward leaves its loop at the latest in the iteration in
\* which guessCount first exceeds KINEMATICS_MAX_GUESS, that is after at
\* most KINEMATICS_MAX_GUESS + 1 evaluations of triangularInverse, whatever
\* triangularInverse answers (NaN included), and leaves it at once when a
\* guessed chain length exceeds settings.chainLength.
C18_ForwardTerminates ==
  /\ k_pc = "loop" => (guessCount <= KINEMATICS_MAX_GUESS /\ ~k_over)
  /\ k_pc \in {"loop", "ret"} =>
       (k_evals = guessCount /\ k_evals <= KINEMATICS_MAX_GUESS + 1)
  /\ k_pc = "ret" => k_evals >= 1

C18_Witness ==
  /\ k_pc = "ret"
  /\ k_evals = KINEMATICS_MAX_GUESS + 1
  /\ xGuess.nan
  /\ ~k_conv
  /\ ~k_over

\* C19 as stated: whenever an iteration finds both chain errors within
\* KINEMATICS_MAX_ERR the call returns that iteration's guess and stores it
\* in the seed cache; the sentinel (0, 0) with the message is produced only
\* when the loop ended without converging.
C19_ConvergedGuessReturned ==
  k_pc = "ret" =>
    /\ k_conv => (~k_msg /\ xLastPosition = xGuess /\ yLastPosition = yGuess)
    /\ k_msg => (~k_conv /\ xLastPosition = Flt(0) /\ yLastPosition = Flt(0)
                   /\ (guessCount > KINEMATICS_MAX_GUESS \/ k_over))

\* C19 amended: the call ends with the message and the sentinel (0, 0) in
\* the seed cache exactly when its last iteration has guessCount above
\* KINEMATICS_MAX_GUESS or a guessed chain length above settings.chainLength,
\* even if that iteration converged; otherwise the last iteration converged
\* and the guess as adjusted in that iteration is returned and stored in the
\* seed cache, without a message.
C19_ResultSelection ==
  k_pc = "ret" =>
    IF guessCount > KINEMATICS_MAX_GUESS \/ k_over
    THEN k_msg /\ xLastPosition = Flt(0) /\ yLastPosition = Flt(0)
    ELSE k_conv /\ ~k_msg /\ xLastPosition = xGuess
           /\ yLastPosition = yGuess

C19_Witness ==
  /\ k_pc = "ret"
  /\ k_conv
  /\ k_over
  /\ k_msg
  /\ xGuess # Flt(0)
  /\ xLastPosition = Flt(0)

\* C20: system_check_travel_limits(target) returns true exactly when
\* target[Z] > zTravelMin, or target[Z] < max_travel[Z], or for X or Y the
\* target is outside the closed interval [max_travel/2, -max_travel/2]; a
\* target on a limit is not beyond it; with max_travel = (-2000, -1500, -100)
\* and zTravelMin = 0, (0, 0, -50) gives false and (0, 0, 5) gives true.
C20_TravelLimits ==
  LET t == lim_target
      mt == lim_settings.max_travel
      beyond ==
        \/ t[Z_AXIS] > lim_settings.zTravelMin
        \/ t[Z_AXIS] < mt[Z_AXIS]
        \/ \E idx \in {X_AXIS, Y_AXIS} :
             2 * t[idx] < mt[idx] \/ 2 * t[idx] > 0 - mt[idx]
      example == mt = Vec(-2000, -1500, -100) /\ lim_settings.zTravelMin = 0
  IN
  lim_pc = "ret" =>
    /\ lim_result = beyond
    /\ (example /\ t = Vec(0, 0, -50)) => lim_result = FALSE
    /\ (example /\ t = Vec(0, 0, 5)) => lim_result = TRUE

C20_Witness ==
  /\ lim_pc = "ret"
  /\ lim_settings.max_travel = Vec(-2000, -1500, -100)
  /\ lim_settings.zTravelMin = 0
  /\ lim_target = Vec(1000, -750, -100)
  /\ lim_result = FALSE

\* C21: the line $SLP received in Idle or Alarm sets the EXEC_SLEEP bit of
\* sys_rt_exec_state, disables the motors, leaves the other exec-state bits,
\* the other exec fields and sys.state as they were and returns Ok; every
\* other line beginning with $S returns InvalidStatement, calls nothing and
\* leaves the exec fields as they were.
C21_SleepCommand ==
  (pc = "ret" /\ Char(cmd, 1) = "S"
     /\ entry.state \in {STATE_IDLE, STATE_ALARM})
  => IF cmd = <<"$", "S", "L", "P">>
     THEN /\ status = STATUS_OK
          /\ BitAnd(sys_rt_exec_state, EXEC_SLEEP) = EXEC_SLEEP
          /\ BitAnd(sys_rt_exec_state, BitNot(EXEC_SLEEP))
               = BitAnd(entry.fields.state, BitNot(EXEC_SLEEP))
          /\ Fields = [entry.fields EXCEPT !.state = sys_rt_exec_state]
          /\ Cardinality({i \in 1..Len(calls) :
                            calls[i].ev = "motorsDisabled"}) = 1
          /\ sys_state = entry.state
     ELSE /\ status = STATUS_INVALID_STATEMENT
          /\ calls = <<>>
          /\ Fields = entry.fields
          /\ sys_state = entry.state

C21_Witness ==
  /\ pc = "ret"
  /\ cmd = <<"$", "S", "L", "P">>
  /\ entry.state = STATE_ALARM
  /\ entry.fields.state = EXEC_CYCLE_START
  /\ sys_rt_exec_state = EXEC_CYCLE_START + EXEC_SLEEP
  /\ status = STATUS_OK

RestoreKind(ch) ==
  CASE ch = "$" -> "SETTINGS_RESTORE_DEFAULTS"
    [] ch = "#" -> "SETTINGS_RESTORE_PARAMETERS"
    [] OTHER -> "SETTINGS_RESTORE_ALL"

\* C22: for $RST=c received in Idle or Alarm with c one of $, # and *, the
\* matching settings_restore is performed first and mc_reset invoked after
\* it, each exactly once, and Ok is returned; for another selector or a
\* line that is not exactly of the form $RST=c, InvalidStatement is returned
\* and there is neither a restore nor a reset.
C22_RestoreThenReset ==
  LET restores == {i \in 1..Len(calls) : calls[i].ev = "settings_restore"}
      resets == {i \in 1..Len(calls) : calls[i].ev = "mc_reset"}
      wellFormed == /\ Len(cmd) = 6
                    /\ SubSeq(cmd, 1, 5) = <<"$", "R", "S", "T", "=">>
                    /\ cmd[6] \in {"$", "#", "*"}
  IN
  (pc = "ret" /\ Char(cmd, 1) = "R"
     /\ entry.state \in {STATE_IDLE, STATE_ALARM})
  => IF wellFormed
     THEN /\ status = STATUS_OK
          /\ Cardinality(restores) = 1
          /\ Cardinality(resets) = 1
          /\ \A i \in restores :
               /\ calls[i].arg = <<RestoreKind(cmd[6])>>
               /\ \A j \in resets : i < j
          /\ BitAnd(sys_rt_exec_state, EXEC_RESET) # 0
     ELSE /\ status = STATUS_INVALID_STATEMENT
          /\ calls = <<>>
          /\ Fields = entry.fields

C22_Witness ==
  /\ pc = "ret"
  /\ cmd = <<"$", "R", "S", "T", "=", "*">>
  /\ entry.state = STATE_ALARM
  /\ status = STATUS_OK
  /\ Len(calls) = 3
  /\ calls[1].ev = "settings_restore"
  /\ calls[1].arg = <<"SETTINGS_RESTORE_ALL">>
  /\ calls[3].ev = "mc_reset"

\* C24: system_convert_maslow_to_xy_steps drops the fraction of the solved
\* position before it multiplies by steps_per_mm: after every conversion
\* x_steps is the integer part of _xLastPosition times steps_per_mm[X_AXIS]
\* (the product stored as int32_t), y_steps likewise, the reported machine
\* position is those steps over steps_per_mm of the left and right motor, and
\* any solver result less than 1 mm away with the same integer part gives the
\* same steps and the same reported position.
C24_StepsFromIntegerPart ==
  k_pc = "idle" =>
    /\ ~xLastPosition.nan /\ ~yLastPosition.nan
    /\ x_steps = TruncDiv(IntPart(xLastPosition) * steps_per_mm[X_AXIS], 2)
    /\ y_steps = TruncDiv(IntPart(yLastPosition) * steps_per_mm[Y_AXIS], 2)
    /\ position[X_AXIS] = [num |-> 2 * x_steps,
                           den |-> steps_per_mm[LEFT_MOTOR]]
    /\ position[Y_AXIS] = [num |-> 2 * y_steps,
                           den |-> steps_per_mm[RIGHT_MOTOR]]
    /\ \A d \in (1 - UnitsPerMM)..(UnitsPerMM - 1) :
         /\ IntPart(Flt(xLastPosition.v + d)) = IntPart(xLastPosition)
              => /\ ToSteps(Flt(xLastPosition.v + d), X_AXIS) = x_steps
                 /\ ToMpos(ToSteps(Flt(xLastPosition.v + d), X_AXIS),
                           LEFT_MOTOR) = position[X_AXIS]
         /\ IntPart(Flt(yLastPosition.v + d)) = IntPart(yLastPosition)
              => /\ ToSteps(Flt(yLastPosition.v + d), Y_AXIS) = y_steps
                 /\ ToMpos(ToSteps(Flt(yLastPosition.v + d), Y_AXIS),
                           RIGHT_MOTOR) = position[Y_AXIS]

\* a solve ended 0.02 mm short of 1 mm in X and past -1 mm in Y: no X steps,
\* and the Y steps of -1 mm
C24_Witness ==
  /\ k_pc = "idle"
  /\ xLastPosition = Flt(98)
  /\ x_steps = 0
  /\ yLastPosition = Flt(-102)
  /\ y_steps = -8

\* C25: whenever the dispatcher hands a block to gc_execute_line (a $J= line,
\* the validation of a $N<n>= line, the startup script after $H), sys.state is
\* Idle or Jog at that moment, never Alarm, Homing, Cycle, Hold, CheckMode,
\* SafetyDoor or Sleep; only these three commands reach the parser, and $X
\* never runs the startup script.
C25_ParserOnlyIdleOrJog ==
  /\ \A i \in 1..Len(calls) :
       calls[i].ev = "gc_execute_line" =>
         /\ calls[i].st \in {STATE_IDLE, STATE_JOG}
         /\ \/ Char(cmd, 1) = "J" /\ entry.state \in {STATE_IDLE, STATE_JOG}
            \/ Char(cmd, 1) = "N" /\ entry.state = STATE_IDLE
                                  /\ calls[i].st = STATE_IDLE
            \/ cmd = <<"$", "H">> /\ calls[i].st = STATE_IDLE
                                  /\ \E j \in 1..(i - 1) :
                                       calls[j].ev = "mc_homing_cycle"
  /\ cmd = <<"$", "X">> =>
       \A i \in 1..Len(calls) : calls[i].ev \notin StartupEvents

\* $H received in the alarm state: the startup block goes to the parser after
\* the dispatcher has set sys.state to Idle
C25_Witness ==
  /\ pc = "ret"
  /\ cmd = <<"$", "H">>
  /\ entry.state = STATE_ALARM
  /\ \E i \in 1..Len(calls) :
       calls[i].ev = "gc_execute_line" /\ calls[i].st = STATE_IDLE

\* C26: during one call of the dispatcher mc_homing_cycle is invoked at most
\* once, only with the homing-enable flag set and the safety door reported
\* closed, and with sys.state = Homing at that moment; and every assignment
\* of Homing to sys.state by the dispatcher is followed, within the same
\* call, by the invocation of mc_homing_cycle.
C26_HomingCycleIffHomingState ==
  pc # "idle" =>
    /\ Cardinality({i \in 1..Len(calls) :
                      calls[i].ev = "mc_homing_cycle"}) <= 1
    /\ \A i \in 1..Len(calls) :
         calls[i].ev = "mc_homing_cycle" =>
           /\ Char(cmd, 1) = "H"
           /\ entry.homing_enable
           /\ ~system_check_safety_door_ajar(entry.door)
           /\ calls[i].st = STATE_HOMING
    /\ \A i \in 1..Len(calls) :
         StateWrite(calls[i], STATE_HOMING) =>
           \E j \in (i + 1)..Len(calls) : calls[j].ev = "mc_homing_cycle"

\* C27: the forward solve takes its first guess from the seed cache
\* (_xLastPosition, _yLastPosition) and from nowhere else, the cache is not
\* written while the solve iterates, and when the solve ends the cache holds
\* what the solve returned: (0, 0) after a solve that gave up, so that the
\* next solve starts from the origin, the last guess otherwise; the
\* conversion to steps leaves the cache as the solve left it.
C27_SeedCache ==
  [][ /\ (k_pc = "idle" /\ k_pc' = "loop") =>
           /\ xGuess' = xLastPosition /\ yGuess' = yLastPosition
           /\ xLastPosition' = xLastPosition /\ yLastPosition' = yLastPosition
      /\ (k_pc = "loop" /\ k_pc' = "loop") =>
           (xLastPosition' = xLastPosition /\ yLastPosition' = yLastPosition)
      /\ (k_pc = "loop" /\ k_pc' = "ret") =>
           IF guessCount' > KINEMATICS_MAX_GUESS \/ k_over'
           THEN xLastPosition' = Flt(0) /\ yLastPosition' = Flt(0)
           ELSE xLastPosition' = xGuess' /\ yLastPosition' = yGuess'
      /\ (k_pc = "ret" /\ k_pc' = "idle") =>
           (xLastPosition' = xLastPosition /\ yLastPosition' = yLastPosition)
    ]_vars

\* a solve that started from a cache near 1 mm (the steps of the conversion
\* before it are still 8) gave up, and the cache holds the origin
C27_Witness ==
  /\ k_pc = "ret"
  /\ k_msg
  /\ guessCount > KINEMATICS_MAX_GUESS
  /\ x_steps = 8
  /\ xLastPosition = Flt(0)
  /\ yLastPosition = Flt(0)

\* the value the specification gives for the field of op, from the value old
\* the mutator read and its argument
SpecifiedValue(op, old, arg) ==
  CASE op = "set_state" -> BitOr(old, arg)
    [] op = "clear_state" -> old - BitAnd(old, arg)
    [] op = "set_alarm" -> arg
    [] op = "clear_alarm" -> 0
    [] op \in {"set_motion_override", "set_accessory_override"} ->
         BitOr(old, arg)
    [] OTHER -> 0

\* C28: the store of a mutator writes its own field only, with old | mask
\* (set_state, set_motion_override, set_accessory_override), old & ~mask
\* (clear_state), code (set_alarm) or 0 (the three clears), where old is the
\* value it read, so that bits outside mask are as read; no other step of a
\* mutator writes a field; the other three fields and sys.state are never
\* written; a call that no interrupt crossed leaves the four fields as on
\* entry but for the specified value of its own field; set_state and
\* clear_state applied twice give what they give applied once.
C28_MutatorFrame ==
  [][ /\ (m_pc = "store" /\ m_pc' = "exit") =>
           LET f == FieldOf(m_op)
               old == IF ReadModifyWrite(m_op) THEN m_reg ELSE Fields[f]
               new == SpecifiedValue(m_op, old, m_arg)
           IN  /\ Fields' = [Fields EXCEPT ![f] = new]
               /\ m_op \in {"set_state", "clear_state"} =>
                    /\ BitAnd(new, BitNot(m_arg)) = BitAnd(old, BitNot(m_arg))
                    /\ BitAnd(new, m_arg) =
                         (IF m_op = "set_state" THEN m_arg ELSE 0)
                    /\ SpecifiedValue(m_op, new, m_arg) = new
      /\ (m_pc' # m_pc /\ m_pc # "store") => Fields' = Fields
      /\ (m_pc = "exit" /\ m_pc' = "done" /\ ~isr_any) =>
           Fields' = [m_old EXCEPT ![FieldOf(m_op)] =
                        SpecifiedValue(m_op, m_old[FieldOf(m_op)], m_arg)]
      /\ m_pc # "idle" => sys_state' = sys_state
    ]_vars

\* clear_state(EXEC_CYCLE_START) has returned with no interrupt in between:
\* the feed-hold bit and the alarm code are as on entry
C28_Witness ==
  /\ m_pc = "done"
  /\ m_op = "clear_state"
  /\ m_arg = EXEC_CYCLE_START
  /\ ~isr_any
  /\ m_old.state = EXEC_CYCLE_START + EXEC_FEED_HOLD
  /\ m_old.alarm = 1
  /\ sys_rt_exec_state = EXEC_FEED_HOLD
  /\ sys_rt_exec_alarm = 1

====
